---- MODULE Spec2Model ----
(***************************************************************************)
(* Model of the task-lite page component (src/app/page.tsx): the React     *)
(* state of Page(), its effects and its handlers, together with the hosted *)
(* gateway (tables, storage, change feed) they call.  Every `await` of the *)
(* source is a suspension point: a handler is one action up to its first   *)
(* await and one action per continuation.  A handler invoked from the UI   *)
(* reads the state of the latest render, i.e. the current state.           *)
(***************************************************************************)
EXTENDS Integers, Sequences, FiniteSets, Bags, TLC

\* ---------------------------------------------------------------- bounds
\* user actions and other clients' writes in one run of the task engine
MaxOps == 2
\* length of the caches the view projection is applied to
MaxCache == 3
\* views opened, closed or commented on in one run of the comment drawer
MaxViews == 3

\* ---------------------------------------------------------------- values
NULL == "null"
\* null where an identifier is expected (identifiers are numbers here)
NoId == 0
ME == "U1"
PEER == "U2"
SPACE == " "

\* drafts of the title / comment input: empty, blank, text with padding
Drafts == { <<>>, <<SPACE>>, <<SPACE, "a">> }
\* what the add-task form is submitted with: title, file chosen, assignee <select>
\* ('' for nobody)
Forms == { [title |-> <<>>, file |-> FALSE, assignee |-> ""],
           [title |-> <<SPACE>>, file |-> TRUE, assignee |-> PEER],
           [title |-> <<SPACE, "a">>, file |-> FALSE, assignee |-> ""],
           [title |-> <<SPACE, "a">>, file |-> TRUE, assignee |-> PEER] }

\* the comments table when the page is opened
SeedComment == [id |-> 1, task_id |-> 1, user_id |-> PEER, content |-> <<"a">>,
                created_at |-> 1]

\* rows the tasks table may hold when the page is opened (newest first)
RowA == [id |-> 1, title |-> <<"a">>, done |-> TRUE, created_at |-> 1,
         file_url |-> NULL, user_id |-> ME, assignee_id |-> PEER]
RowB == [id |-> 2, title |-> <<"a">>, done |-> FALSE, created_at |-> 2,
         file_url |-> NULL, user_id |-> PEER, assignee_id |-> ME]
InitialRows == { <<RowB, RowA>> }
\* newer rows, for the caches that are filtered: open and assigned to ME, completed
\* and assigned to PEER, open, created by ME and assigned to nobody
RowC == [id |-> 3, title |-> <<"a">>, done |-> FALSE, created_at |-> 3,
         file_url |-> NULL, user_id |-> PEER, assignee_id |-> ME]
RowD == [id |-> 4, title |-> <<"a">>, done |-> TRUE, created_at |-> 4,
         file_url |-> NULL, user_id |-> PEER, assignee_id |-> PEER]
RowE == [id |-> 5, title |-> <<"a">>, done |-> FALSE, created_at |-> 5,
         file_url |-> NULL, user_id |-> ME, assignee_id |-> NULL]
Pool == <<RowE, RowD, RowC, RowB, RowA>>

VARIABLES
    sessionUserId,      \* useState: NULL until the session is known
    tasks,              \* useState<Task[]>: the task cache
    loading,            \* useState(true)
    err,                \* useState<string|null>
    tasksChannelRef,    \* useRef: the tasks channel, NULL or a channel id
    taskChannels,       \* gateway: ids of the subscribed tasks channels
    effect,             \* position of the tasks effect's async body
    calls,              \* bag of the remote calls in flight
    server,             \* gateway: rows of the tasks table, newest first
    feed,               \* gateway: change events not yet pushed to the page
    profiles,           \* useState<Profile[]>
    openCommentsFor,    \* useState<Task|null>: id of the task whose drawer is open
    comments,           \* useState<Comment[]>: the comment cache
    commentsLoading,    \* useState(false)
    commentsChannelRef, \* useRef: the comments channel, NULL or its task id
    commentChannels,    \* gateway: subscribed comments channels, by filtered task id
    serverComments,     \* gateway: rows of the comments table, newest first
    cfeed,              \* gateway: bag of comment events not yet pushed, by channel
    views,              \* drawer actions and foreign comments the run may still take
    uid,                \* next fresh value of randomUUID() / the clocks
    ops,                \* user actions and foreign writes the run may still take
    resynced,           \* history: temporary ids whose failed insert was reloaded
    readFailed,         \* history: some read of the tasks table has failed
    filter,             \* useState<Filter>('all'): the filter selected
    notice              \* what the latest step handed to notify(), NoNotice if nothing

\* the comment drawer's own state
drawer == <<openCommentsFor, comments, commentsLoading, commentsChannelRef,
            commentChannels, serverComments, cfeed, views>>

\* the task engine's state that the drawer never writes
engine == <<sessionUserId, tasks, loading, tasksChannelRef, taskChannels, effect,
            server, feed, profiles, ops, resynced, readFailed>>

vars == <<sessionUserId, tasks, loading, err, tasksChannelRef, taskChannels,
          effect, calls, server, feed, profiles, uid, ops, resynced, readFailed, drawer, filter,
          notice>>

\* ---------------------------------------------------------------- helpers
\* the step did not call notify()
NoNotice == NULL
\* notify(msg): new Notification(msg) when the permission is granted; a missing
\* API, a missing permission or a throwing constructor is swallowed by the catch,
\* so the call has no effect on the page beyond the dispatch itself
Notify(msg) == notice' = msg
Add(c) == calls (+) SetToBag({c})
Del(c) == calls (-) SetToBag({c})
InFlight == BagToSet(calls)
Ids(ts) == { ts[i].id : i \in 1..Len(ts) }
\* the k-th smallest element of a set of numbers
Nth(S, k) == CHOOSE i \in S : Cardinality({ j \in S : j < i }) = k - 1
\* ts restricted to the positions in S, in the order of ts
Restrict(ts, S) == [k \in 1..Cardinality(S) |-> ts[Nth(S, k)]]

\* mutant of Trim: the text is tested as typed
NoTrim(s) == s

\* String.prototype.trim on a sequence of characters
RECURSIVE TrimLeft(_)
TrimLeft(s) == IF s # <<>> /\ Head(s) = SPACE THEN TrimLeft(Tail(s)) ELSE s
RECURSIVE TrimRight(_)
TrimRight(s) ==
    IF s # <<>> /\ s[Len(s)] = SPACE THEN TrimRight(SubSeq(s, 1, Len(s) - 1)) ELSE s
Trim(s) == TrimRight(TrimLeft(s))

\* ---------------------------------------------------------------- gateway
TASKS_CHANNEL == "tasks-rt-v5"
\* one change event per subscribed tasks channel
Emit == feed + Cardinality(taskChannels)
\* insert into tasks: id and created_at are the table's defaults, done is false
ServerInsert(row) ==
    <<[id |-> uid, title |-> row.title, done |-> FALSE, created_at |-> uid,
       file_url |-> row.file_url, user_id |-> row.user_id,
       assignee_id |-> row.assignee_id]>> \o server
\* update tasks set done = next where id = id
ServerUpdate(id, next) ==
    [i \in 1..Len(server) |->
        IF server[i].id = id THEN [server[i] EXCEPT !.done = next] ELSE server[i]]
\* delete from tasks where id in ids
ServerDelete(ids) == SelectSeq(server, LAMBDA r : r.id \notin ids)

\* ---------------------------------------------------------------- cache steps
\* mutant of Prepend: the temporary record is put last
AppendTemp(temp, ts) == ts \o <<temp>>
\* setTasks(prev => [temp, ...prev])
Prepend(temp, ts) == <<temp>> \o ts
\* mutant of OptimisticToggle: every cached task takes the new flag
ToggleEvery(ts, id, next) == [i \in 1..Len(ts) |-> [ts[i] EXCEPT !.done = next]]
\* prev.map(x => x.id === task.id ? { ...x, done: next } : x)
OptimisticToggle(ts, id, next) ==
    [i \in 1..Len(ts) |-> IF ts[i].id = id THEN [ts[i] EXCEPT !.done = next] ELSE ts[i]]
\* prev.filter(x => x.id !== task.id)
OptimisticRemove(ts, id) == SelectSeq(ts, LAMBDA x : x.id # id)
\* mutant of DoneIds: the batch is keyed by every cached identifier
DoneIdsAll(ts) == { ts[i].id : i \in 1..Len(ts) }
\* tasks.filter(t => t.done).map(t => t.id)
DoneIds(ts) == { ts[i].id : i \in { j \in 1..Len(ts) : ts[j].done } }
\* mutant of OptimisticClear: the filter keeps the completed tasks
ClearKeepsDone(ts) == SelectSeq(ts, LAMBDA t : t.done)
\* prev.filter(t => !t.done)
OptimisticClear(ts) == SelectSeq(ts, LAMBDA t : ~t.done)
\* const prev = tasks
Snapshot(ts) == ts
\* mutant of Restore: a failed call leaves the optimistic cache in place
KeepOptimistic(c, cur) == cur
\* setTasks(prev) of a failed update / delete
Restore(c, cur) == c.prev
\* mutant of Loaded: a failed read leaves the cache as it was
LoadedKeepsStale(c, cur) == IF c.error THEN cur ELSE c.data
\* loadTasks: if (error) setTasks([]) else setTasks(data)
Loaded(c, cur) == IF c.error THEN <<>> ELSE c.data

\* ---------------------------------------------------------------- initial state
Init ==
    /\ sessionUserId = NULL
    /\ tasks = <<>>
    /\ loading = TRUE
    /\ err = NULL
    /\ tasksChannelRef = NULL
    /\ taskChannels = {}
    /\ effect = "session"
    /\ calls = EmptyBag
    /\ server \in InitialRows
    /\ feed = 0
    /\ profiles = <<>>
    /\ uid = 3
    /\ ops = MaxOps
    /\ resynced = {}
    /\ readFailed = FALSE
    /\ openCommentsFor = NoId
    /\ comments = <<>>
    /\ commentsLoading = FALSE
    /\ commentsChannelRef = NoId
    /\ commentChannels = {}
    /\ serverComments = <<SeedComment>>
    /\ cfeed = EmptyBag
    /\ views = 0
    /\ filter = "all"
    /\ notice = NoNotice

\* ---------------------------------------------------------------- loadTasks
SelectCall(initial, resync) ==
    [kind |-> "select", initial |-> initial, resync |-> resync,
     served |-> FALSE, error |-> FALSE, data |-> <<>>]

\* the gateway answers a select with its rows at that moment, or with an error
SelectServe(c, ok) ==
    /\ c \in InFlight /\ c.kind = "select" /\ ~c.served
    /\ calls' = Del(c) (+) SetToBag({[c EXCEPT !.served = TRUE, !.error = ~ok,
                                        !.data = IF ok THEN server ELSE <<>>]})
    /\ UNCHANGED <<sessionUserId, tasks, loading, err, tasksChannelRef, taskChannels,
                   effect, server, feed, profiles, uid, ops, resynced, readFailed,
                   drawer, filter>>
    /\ notice' = NoNotice

\* Promise.all of the tasks effect has settled once no initial load is in flight;
\* its continuation subscribes to the tasks table
\* (the continuation is not cancelled by the effect's cleanup: after a cleanup
\* during the load, effect = "cleaned-loading", it still runs)
InitialDone(c) ==
    /\ effect \in {"loading", "cleaned-loading"}
    /\ c.initial
    /\ \A d \in BagToSet(Del(c)) : d.kind \in {"select", "profiles"} => ~d.initial
Subscribe(c) ==
    IF InitialDone(c)
    THEN /\ taskChannels' = taskChannels \cup {TASKS_CHANNEL}
         /\ tasksChannelRef' = TASKS_CHANNEL
         /\ effect' = IF effect = "loading" THEN "subscribed" ELSE "cleaned"
    ELSE UNCHANGED <<taskChannels, tasksChannelRef, effect>>

\* continuation of loadTasks after the select
SelectSettle(c) ==
    /\ c \in InFlight /\ c.kind = "select" /\ c.served
    /\ tasks' = Loaded(c, tasks)
    /\ err' = IF c.error THEN "select failed" ELSE err
    /\ loading' = FALSE
    /\ calls' = Del(c)
    /\ resynced' = IF c.resync # NoId THEN resynced \cup {c.resync} ELSE resynced
    /\ readFailed' = (readFailed \/ c.error)
    /\ Subscribe(c)
    /\ UNCHANGED <<sessionUserId, server, feed, profiles, uid, ops, drawer, filter>>
    /\ notice' = NoNotice

\* loadProfiles
ProfilesSettle(c, ok) ==
    /\ c \in InFlight /\ c.kind = "profiles"
    /\ profiles' = IF ok THEN <<ME, PEER>> ELSE profiles
    /\ err' = IF ok THEN err ELSE "profiles failed"
    /\ calls' = Del(c)
    /\ Subscribe(c)
    /\ UNCHANGED <<sessionUserId, tasks, loading, server, feed, uid, ops,
                   resynced, readFailed, drawer, filter>>
    /\ notice' = NoNotice

\* ---------------------------------------------------------------- effects
\* session effect: getSession() resolves
SessionResolved(has) ==
    /\ effect = "session"
    /\ sessionUserId' = IF has THEN ME ELSE NULL
    /\ loading' = IF has THEN loading ELSE FALSE
    /\ effect' = IF has THEN "mount" ELSE "nosession"
    /\ UNCHANGED <<tasks, err, tasksChannelRef, taskChannels, calls, server, feed,
                   profiles, uid, ops, resynced, readFailed, drawer, filter>>
    /\ notice' = NoNotice

\* mutant of TasksEffect: the effect loads without a user identity
TasksEffectUnguarded ==
    /\ effect \in {"mount", "nosession"}
    /\ effect' = "loading"
    /\ loading' = TRUE
    /\ err' = NULL
    /\ calls' = calls (+) SetToBag({[kind |-> "profiles", initial |-> TRUE]})
                      (+) SetToBag({SelectCall(TRUE, NoId)})
    /\ UNCHANGED <<sessionUserId, tasks, tasksChannelRef, taskChannels, server, feed,
                   profiles, uid, ops, resynced, readFailed, drawer, filter>>
    /\ notice' = NoNotice

\* tasks effect: Promise.all([loadProfiles(), loadTasks()])
TasksEffect ==
    /\ effect = "mount" /\ sessionUserId # NULL
    /\ effect' = "loading"
    /\ loading' = TRUE
    /\ err' = NULL
    /\ calls' = calls (+) SetToBag({[kind |-> "profiles", initial |-> TRUE]})
                      (+) SetToBag({SelectCall(TRUE, NoId)})
    /\ UNCHANGED <<sessionUserId, tasks, tasksChannelRef, taskChannels, server, feed,
                   profiles, uid, ops, resynced, readFailed, drawer, filter>>
    /\ notice' = NoNotice

\* the tasks channel's callback: async () => { await loadTasks(); }
FeedEvent ==
    /\ feed > 0 /\ taskChannels # {}
    /\ feed' = feed - 1
    /\ loading' = TRUE
    /\ err' = NULL
    /\ calls' = Add(SelectCall(FALSE, NoId))
    /\ UNCHANGED <<sessionUserId, tasks, tasksChannelRef, taskChannels, effect, server,
                   profiles, uid, ops, resynced, readFailed, drawer, filter>>
    /\ notice' = NoNotice

\* ---------------------------------------------------------------- addTask
\* mutant of Temp: the identifier is the position after the last entry
TempCountId(t, file_url, a) ==
    [id |-> Len(tasks) + 1, title |-> t, done |-> FALSE, created_at |-> uid,
     file_url |-> file_url, user_id |-> sessionUserId,
     assignee_id |-> IF a = "" THEN NULL ELSE a]
\* the temporary record of addTask
Temp(t, file_url, a) ==
    [id |-> uid, title |-> t, done |-> FALSE, created_at |-> uid, file_url |-> file_url,
     user_id |-> sessionUserId, assignee_id |-> IF a = "" THEN NULL ELSE a]

\* addTask from `const temp` on: optimistic prepend, then the remote insert
PrependAndInsert(t, file_url, a) ==
    /\ tasks' = Prepend(Temp(t, file_url, a), tasks)
    /\ uid' = uid + 1
    /\ calls' = Add([kind |-> "insert", temp |-> uid,
                     row |-> [title |-> t, file_url |-> file_url,
                              user_id |-> sessionUserId,
                              assignee_id |-> IF a = "" THEN NULL ELSE a]])

\* addTask(e) is submitted with the form's title, file and assignee
AddTask(draft, hasFile, a) ==
    /\ ops > 0
    /\ IF sessionUserId = NULL \/ Trim(draft) = <<>>
       THEN UNCHANGED vars
       ELSE /\ ops' = ops - 1
            /\ IF hasFile
               THEN /\ calls' = Add([kind |-> "upload", t |-> Trim(draft), a |-> a])
                    /\ UNCHANGED <<tasks, uid>>
               ELSE PrependAndInsert(Trim(draft), NULL, a)
            /\ UNCHANGED <<sessionUserId, loading, err, tasksChannelRef, taskChannels,
                           effect, server, feed, profiles, resynced, readFailed, drawer, filter>>
            /\ notice' = NoNotice

\* mutant of UploadSettle: the catch block returns, no record and no insert
UploadSettleAborts(c, ok) ==
    /\ c \in InFlight /\ c.kind = "upload"
    /\ err' = IF ok THEN err ELSE "upload failed"
    /\ tasks' = IF ok THEN Prepend(Temp(c.t, "url", c.a), tasks) ELSE tasks
    /\ uid' = IF ok THEN uid + 1 ELSE uid
    /\ calls' = IF ok
                THEN Del(c) (+) SetToBag({[kind |-> "insert", temp |-> uid,
                         row |-> [title |-> c.t, file_url |-> "url",
                                  user_id |-> sessionUserId,
                                  assignee_id |-> IF c.a = "" THEN NULL ELSE c.a]]})
                ELSE Del(c)
    /\ UNCHANGED <<sessionUserId, loading, tasksChannelRef, taskChannels, effect,
                   server, feed, profiles, ops, resynced, readFailed, drawer, filter>>
    /\ notice' = NoNotice

\* the upload has settled: the catch block, then the rest of addTask
UploadSettle(c, ok) ==
    /\ c \in InFlight /\ c.kind = "upload"
    /\ err' = IF ok THEN err ELSE "upload failed"
    /\ tasks' = Prepend(Temp(c.t, IF ok THEN "url" ELSE NULL, c.a), tasks)
    /\ uid' = uid + 1
    /\ calls' = Del(c) (+) SetToBag({[kind |-> "insert", temp |-> uid,
                     row |-> [title |-> c.t, file_url |-> IF ok THEN "url" ELSE NULL,
                              user_id |-> sessionUserId,
                              assignee_id |-> IF c.a = "" THEN NULL ELSE c.a]]})
    /\ UNCHANGED <<sessionUserId, loading, tasksChannelRef, taskChannels, effect,
                   server, feed, profiles, ops, resynced, readFailed, drawer, filter>>
    /\ notice' = NoNotice

\* mutant of InsertSettle: a successful insert reloads the tasks as well
InsertSettleReloads(c, ok) ==
    /\ c \in InFlight /\ c.kind = "insert"
    /\ IF ok
       THEN /\ server' = ServerInsert(c.row)
            /\ uid' = uid + 1
            /\ feed' = Emit
            /\ err' = NULL
            /\ loading' = TRUE
            /\ calls' = Del(c) (+) SetToBag({SelectCall(FALSE, NoId)})
            /\ Notify("Task added")
       ELSE /\ loading' = TRUE
            /\ err' = NULL
            /\ calls' = Del(c) (+) SetToBag({SelectCall(FALSE, c.temp)})
            /\ UNCHANGED <<server, uid, feed>>
            /\ notice' = NoNotice
    /\ UNCHANGED <<sessionUserId, tasks, tasksChannelRef, taskChannels, effect,
                   profiles, ops, resynced, readFailed, drawer, filter>>

\* the insert has settled; on error: setErr(message); await loadTasks(), whose
\* setLoading(true); setErr(null) run before the handler yields again, so that the
\* message set just before is gone when the page renders
InsertSettle(c, ok) ==
    /\ c \in InFlight /\ c.kind = "insert"
    /\ IF ok
       THEN /\ server' = ServerInsert(c.row)
            /\ uid' = uid + 1
            /\ feed' = Emit
            /\ err' = NULL
            /\ calls' = Del(c)
            /\ UNCHANGED loading
            /\ Notify("Task added")
       ELSE /\ loading' = TRUE
            /\ err' = NULL
            /\ calls' = Del(c) (+) SetToBag({SelectCall(FALSE, c.temp)})
            /\ UNCHANGED <<server, uid, feed>>
            /\ notice' = NoNotice
    /\ UNCHANGED <<sessionUserId, tasks, tasksChannelRef, taskChannels, effect,
                   profiles, ops, resynced, readFailed, drawer, filter>>

\* ---------------------------------------------------------------- toggleDone
ToggleDone(i) ==
    /\ ops > 0
    /\ i \in 1..Len(tasks)
    /\ ops' = ops - 1
    /\ tasks' = OptimisticToggle(tasks, tasks[i].id, ~tasks[i].done)
    /\ calls' = Add([kind |-> "update", id |-> tasks[i].id, next |-> ~tasks[i].done,
                     prev |-> Snapshot(tasks), before |-> tasks])
    /\ UNCHANGED <<sessionUserId, loading, err, tasksChannelRef, taskChannels, effect,
                   server, feed, profiles, uid, resynced, readFailed, drawer, filter>>
    /\ notice' = NoNotice

\* mutant of UpdateSettle: a rejected update is sent again
UpdateSettleRetries(c, ok) ==
    /\ c \in InFlight /\ c.kind = "update"
    /\ calls' = IF ok THEN Del(c) ELSE calls
    /\ IF ok
       THEN /\ err' = NULL
            /\ server' = ServerUpdate(c.id, c.next)
            /\ feed' = IF c.id \in Ids(server) THEN Emit ELSE feed
            /\ UNCHANGED <<tasks>>
            /\ Notify(IF c.next THEN "Task completed" ELSE "Task re-opened")
       ELSE /\ err' = "update failed"
            /\ tasks' = Restore(c, tasks)
            /\ UNCHANGED <<server, feed>>
            /\ notice' = NoNotice
    /\ UNCHANGED <<sessionUserId, loading, tasksChannelRef, taskChannels, effect,
                   profiles, uid, ops, resynced, readFailed, drawer, filter>>

\* continuation of toggleDone after the update
UpdateSettle(c, ok) ==
    /\ c \in InFlight /\ c.kind = "update"
    /\ calls' = Del(c)
    /\ IF ok
       THEN /\ err' = NULL
            /\ server' = ServerUpdate(c.id, c.next)
            /\ feed' = IF c.id \in Ids(server) THEN Emit ELSE feed
            /\ UNCHANGED <<tasks>>
            /\ Notify(IF c.next THEN "Task completed" ELSE "Task re-opened")
       ELSE /\ err' = "update failed"
            /\ tasks' = Restore(c, tasks)
            /\ UNCHANGED <<server, feed>>
            /\ notice' = NoNotice
    /\ UNCHANGED <<sessionUserId, loading, tasksChannelRef, taskChannels, effect,
                   profiles, uid, ops, resynced, readFailed, drawer, filter>>

\* ---------------------------------------------------------------- remove
Remove(i) ==
    /\ ops > 0
    /\ i \in 1..Len(tasks)
    /\ ops' = ops - 1
    /\ tasks' = OptimisticRemove(tasks, tasks[i].id)
    /\ calls' = Add([kind |-> "delete", id |-> tasks[i].id,
                     prev |-> Snapshot(tasks), before |-> tasks])
    /\ UNCHANGED <<sessionUserId, loading, err, tasksChannelRef, taskChannels, effect,
                   server, feed, profiles, uid, resynced, readFailed, drawer, filter>>
    /\ notice' = NoNotice

DeleteSettle(c, ok) ==
    /\ c \in InFlight /\ c.kind = "delete"
    /\ calls' = Del(c)
    /\ IF ok
       THEN /\ err' = NULL
            /\ server' = ServerDelete({c.id})
            /\ feed' = IF c.id \in Ids(server) THEN Emit ELSE feed
            /\ UNCHANGED <<tasks>>
            /\ Notify("Task deleted")
       ELSE /\ err' = "delete failed"
            /\ tasks' = Restore(c, tasks)
            /\ UNCHANGED <<server, feed>>
            /\ notice' = NoNotice
    /\ UNCHANGED <<sessionUserId, loading, tasksChannelRef, taskChannels, effect,
                   profiles, uid, ops, resynced, readFailed, drawer, filter>>

\* ---------------------------------------------------------------- clearCompleted
ClearCompleted ==
    /\ ops > 0
    /\ IF DoneIds(tasks) = {}
       THEN UNCHANGED vars
       ELSE /\ ops' = ops - 1
            /\ tasks' = OptimisticClear(tasks)
            /\ calls' = Add([kind |-> "deleteIn", ids |-> DoneIds(tasks),
                             prev |-> Snapshot(tasks), before |-> tasks])
            /\ UNCHANGED <<sessionUserId, loading, err, tasksChannelRef, taskChannels,
                           effect, server, feed, profiles, uid, resynced, readFailed,
                           drawer, filter>>
            /\ notice' = NoNotice

DeleteInSettle(c, ok) ==
    /\ c \in InFlight /\ c.kind = "deleteIn"
    /\ calls' = Del(c)
    /\ IF ok
       THEN /\ server' = ServerDelete(c.ids)
            /\ feed' = IF c.ids \cap Ids(server) # {} THEN Emit ELSE feed
            /\ UNCHANGED <<tasks, err>>
       ELSE /\ err' = "clear failed"
            /\ tasks' = Restore(c, tasks)
            /\ UNCHANGED <<server, feed>>
    /\ UNCHANGED <<sessionUserId, loading, tasksChannelRef, taskChannels, effect,
                   profiles, uid, ops, resynced, readFailed, drawer, filter>>
    /\ notice' = NoNotice

\* ---------------------------------------------------------------- other clients
\* another session adds a task ...
ForeignInsert ==
    /\ ops > 0
    /\ ops' = ops - 1
    /\ server' = ServerInsert([title |-> <<"a">>, file_url |-> NULL, user_id |-> PEER,
                               assignee_id |-> ME])
    /\ uid' = uid + 1
    /\ feed' = Emit
    /\ UNCHANGED <<sessionUserId, tasks, loading, err, tasksChannelRef, taskChannels,
                   effect, calls, profiles, resynced, readFailed, drawer, filter>>
    /\ notice' = NoNotice

\* ... completes or re-opens the newest row
ForeignUpdate ==
    /\ ops > 0
    /\ server # <<>>
    /\ ops' = ops - 1
    /\ server' = ServerUpdate(server[1].id, ~server[1].done)
    /\ feed' = Emit
    /\ UNCHANGED <<sessionUserId, tasks, loading, err, tasksChannelRef, taskChannels,
                   effect, calls, profiles, uid, resynced, readFailed, drawer, filter>>
    /\ notice' = NoNotice

\* ... deletes the oldest row
ForeignDelete ==
    /\ ops > 0
    /\ server # <<>>
    /\ ops' = ops - 1
    /\ server' = ServerDelete({server[Len(server)].id})
    /\ feed' = Emit
    /\ UNCHANGED <<sessionUserId, tasks, loading, err, tasksChannelRef, taskChannels,
                   effect, calls, profiles, uid, resynced, readFailed, drawer, filter>>
    /\ notice' = NoNotice

\* ---------------------------------------------------------------- specification
\* the task engine with the profiles loading; a failing load of the profiles,
\* which only sets the message, is a step of the whole page (PageNext)
Next ==
    \/ \E has \in BOOLEAN : SessionResolved(has)
    \/ TasksEffect
    \/ FeedEvent
    \/ \E c \in InFlight, ok \in BOOLEAN : SelectServe(c, ok)
    \/ \E c \in InFlight : SelectSettle(c)
    \/ \E c \in InFlight : ProfilesSettle(c, TRUE)
    \/ \E f \in Forms : AddTask(f.title, f.file, f.assignee)
    \/ \E c \in InFlight, ok \in BOOLEAN : UploadSettle(c, ok)
    \/ \E c \in InFlight, ok \in BOOLEAN : InsertSettle(c, ok)
    \/ \E i \in 1..Len(tasks) : ToggleDone(i)
    \/ \E c \in InFlight, ok \in BOOLEAN : UpdateSettle(c, ok)
    \/ \E i \in 1..Len(tasks) : Remove(i)
    \/ \E c \in InFlight, ok \in BOOLEAN : DeleteSettle(c, ok)
    \/ ClearCompleted
    \/ \E c \in InFlight, ok \in BOOLEAN : DeleteInSettle(c, ok)
    \/ ForeignInsert
    \/ ForeignUpdate
    \/ ForeignDelete

Spec == Init /\ [][Next]_vars

\* ---------------------------------------------------------------- comment drawer
\* select * from comments where task_id = t order by created_at desc
CommentsOf(t) == SelectSeq(serverComments, LAMBDA r : r.task_id = t)

CSelectCall(t, subscribe, resync) ==
    [kind |-> "cselect", task |-> t, subscribe |-> subscribe, resync |-> resync,
     served |-> FALSE, error |-> FALSE, data |-> <<>>]

\* the effect's cleanup: remove the channel the ref holds.  It exists only when the
\* previous run of the effect had a task (the null branch returns no cleanup).
CleanupChannels ==
    IF openCommentsFor # NoId /\ commentsChannelRef # NoId
    THEN commentChannels \ {commentsChannelRef}
    ELSE commentChannels
CleanupRef == IF openCommentsFor # NoId THEN NoId ELSE commentsChannelRef

\* setOpenCommentsFor(t): cleanup of the previous effect, then the effect for t,
\* which starts loadComments(t).  Setting the task already shown renders nothing.
OpenComments(i) ==
    /\ views > 0
    /\ i \in 1..Len(tasks)
    /\ tasks[i].id # openCommentsFor
    /\ views' = views - 1
    /\ openCommentsFor' = tasks[i].id
    /\ commentChannels' = CleanupChannels
    /\ commentsChannelRef' = CleanupRef
    /\ commentsLoading' = TRUE
    /\ calls' = Add(CSelectCall(tasks[i].id, TRUE, NoId))
    /\ UNCHANGED <<engine, filter, err, uid, comments, serverComments, cfeed>>
    /\ notice' = NoNotice

\* setOpenCommentsFor(null): cleanup of the previous effect, then the null branch
CloseComments ==
    /\ views > 0
    /\ openCommentsFor # NoId
    /\ views' = views - 1
    /\ openCommentsFor' = NoId
    /\ commentChannels' = CleanupChannels
    /\ commentsChannelRef' = NoId
    /\ UNCHANGED <<engine, filter, err, uid, calls, comments, commentsLoading, serverComments,
                   cfeed>>
    /\ notice' = NoNotice

CSelectServe(c, ok) ==
    /\ c \in InFlight /\ c.kind = "cselect" /\ ~c.served
    /\ calls' = Del(c) (+) SetToBag({[c EXCEPT !.served = TRUE, !.error = ~ok,
                                        !.data = IF ok THEN CommentsOf(c.task) ELSE <<>>]})
    /\ UNCHANGED <<engine, filter, err, uid, drawer>>
    /\ notice' = NoNotice

\* loadComments: if (error) setComments([]) else setComments(data)
CommentsLoaded(c, cur) == IF c.error THEN <<>> ELSE c.data

\* continuation of loadComments; when called by the effect, the effect then
\* subscribes to the task's comments and stores the channel in the ref
CSelectSettle(c) ==
    /\ c \in InFlight /\ c.kind = "cselect" /\ c.served
    /\ calls' = Del(c)
    /\ comments' = CommentsLoaded(c, comments)
    /\ err' = IF c.error THEN "select failed" ELSE err
    /\ commentsLoading' = FALSE
    /\ commentChannels' = IF c.subscribe THEN commentChannels \cup {c.task}
                                          ELSE commentChannels
    /\ commentsChannelRef' = IF c.subscribe THEN c.task ELSE commentsChannelRef
    /\ UNCHANGED <<engine, filter, uid, openCommentsFor, serverComments, cfeed, views>>
    /\ notice' = NoNotice

\* the comments channel's callback: async () => { await loadComments(taskId); }
CommentEvent(t) ==
    /\ BagIn(t, cfeed) /\ t \in commentChannels
    /\ cfeed' = cfeed (-) SetToBag({t})
    /\ commentsLoading' = TRUE
    /\ calls' = Add(CSelectCall(t, FALSE, NoId))
    /\ UNCHANGED <<engine, filter, err, uid, openCommentsFor, comments, commentsChannelRef,
                   commentChannels, serverComments, views>>
    /\ notice' = NoNotice

\* a comment written to the table: one event for the channel filtered on its task
CEmit(t) == IF t \in commentChannels THEN cfeed (+) SetToBag({t}) ELSE cfeed

\* addComment(e) is submitted with the comment input's text
AddComment(draft) ==
    /\ views > 0
    /\ IF openCommentsFor = NoId \/ sessionUserId = NULL \/ Trim(draft) = <<>>
       THEN UNCHANGED vars
       ELSE /\ views' = views - 1
            /\ comments' = <<[id |-> uid, task_id |-> openCommentsFor,
                              user_id |-> sessionUserId, content |-> Trim(draft),
                              created_at |-> uid]>> \o comments
            /\ uid' = uid + 1
            /\ calls' = Add([kind |-> "cinsert", tmp |-> uid, task |-> openCommentsFor,
                             user_id |-> sessionUserId, content |-> Trim(draft)])
            /\ UNCHANGED <<engine, filter, err, openCommentsFor, commentsLoading,
                           commentsChannelRef, commentChannels, serverComments, cfeed>>
            /\ notice' = NoNotice

\* mutant of CInsertSettle: a failed insert reports the error and reloads nothing
CInsertSettleNoReload(c, ok) ==
    /\ c \in InFlight /\ c.kind = "cinsert"
    /\ ok => c.task \in Ids(server)
    /\ IF ok
       THEN /\ serverComments' = <<[id |-> uid, task_id |-> c.task, user_id |-> c.user_id,
                                    content |-> c.content, created_at |-> uid]>>
                                 \o serverComments
            /\ uid' = uid + 1
            /\ cfeed' = CEmit(c.task)
            /\ calls' = Del(c)
            /\ UNCHANGED <<err, commentsLoading>>
       ELSE /\ err' = "comment failed"
            /\ calls' = Del(c)
            /\ UNCHANGED <<serverComments, uid, cfeed, commentsLoading>>
    /\ UNCHANGED <<engine, filter, openCommentsFor, comments, commentsChannelRef,
                   commentChannels, views>>
    /\ notice' = NoNotice

\* the comment insert has settled; on error: setErr(message); await loadComments(id).
\* A comment on a task the table does not hold is rejected by the foreign key.
CInsertSettle(c, ok) ==
    /\ c \in InFlight /\ c.kind = "cinsert"
    /\ ok => c.task \in Ids(server)
    /\ IF ok
       THEN /\ serverComments' = <<[id |-> uid, task_id |-> c.task, user_id |-> c.user_id,
                                    content |-> c.content, created_at |-> uid]>>
                                 \o serverComments
            /\ uid' = uid + 1
            /\ cfeed' = CEmit(c.task)
            /\ calls' = Del(c)
            /\ UNCHANGED <<err, commentsLoading>>
       ELSE /\ err' = "comment failed"
            /\ commentsLoading' = TRUE
            /\ calls' = Del(c) (+) SetToBag({CSelectCall(c.task, FALSE, c.tmp)})
            /\ UNCHANGED <<serverComments, uid, cfeed>>
    /\ UNCHANGED <<engine, filter, openCommentsFor, comments, commentsChannelRef,
                   commentChannels, views>>
    /\ notice' = NoNotice

\* another session comments on the newest task
ForeignComment ==
    /\ views > 0
    /\ server # <<>>
    /\ views' = views - 1
    /\ serverComments' = <<[id |-> uid, task_id |-> server[1].id, user_id |-> PEER,
                            content |-> <<"a">>, created_at |-> uid]>> \o serverComments
    /\ uid' = uid + 1
    /\ cfeed' = CEmit(server[1].id)
    /\ UNCHANGED <<engine, filter, err, calls, openCommentsFor, comments, commentsLoading,
                   commentsChannelRef, commentChannels>>
    /\ notice' = NoNotice

DrawerNext ==
    \/ \E i \in 1..Len(tasks) : OpenComments(i)
    \/ CloseComments
    \/ \E c \in InFlight, ok \in BOOLEAN : CSelectServe(c, ok)
    \/ \E c \in InFlight : CSelectSettle(c)
    \/ \E t \in commentChannels : CommentEvent(t)
    \/ \E d \in Drafts : AddComment(d)
    \/ \E c \in InFlight, ok \in BOOLEAN : CInsertSettle(c, ok)
    \/ ForeignComment

\* the page once the session is known, the tasks are loaded and the tasks channel
\* is subscribed: the drawer is opened from this list
DrawerInit ==
    /\ sessionUserId = ME
    /\ tasks = <<RowB, RowA>>
    /\ loading = FALSE
    /\ err = NULL
    /\ tasksChannelRef = TASKS_CHANNEL
    /\ taskChannels = {TASKS_CHANNEL}
    /\ effect = "subscribed"
    /\ calls = EmptyBag
    /\ server = <<RowB, RowA>>
    /\ feed = 0
    /\ profiles = <<ME, PEER>>
    /\ uid = 3
    /\ ops = 0
    /\ resynced = {}
    /\ readFailed = FALSE
    /\ openCommentsFor = NoId
    /\ comments = <<>>
    /\ commentsLoading = FALSE
    /\ commentsChannelRef = NoId
    /\ commentChannels = {}
    /\ serverComments = <<SeedComment>>
    /\ cfeed = EmptyBag
    /\ views = MaxViews
    /\ filter = "all"
    /\ notice = NoNotice

DrawerSpec == DrawerInit /\ [][DrawerNext]_vars

\* cleanup of the tasks effect (the page unmounts or the identity changes):
\* if (tasksChannelRef.current) supabase.removeChannel(tasksChannelRef.current).
\* The effect returns a cleanup only when it ran with an identity. The ref is
\* not reset, pending calls are not cancelled, and with the page gone no handler
\* can be invoked any more (ops' = 0).
Teardown ==
    /\ effect \in {"loading", "subscribed"}
    /\ taskChannels' = IF tasksChannelRef # NULL
                       THEN taskChannels \ {tasksChannelRef}
                       ELSE taskChannels
    /\ effect' = IF effect = "loading" THEN "cleaned-loading" ELSE "cleaned"
    /\ ops' = 0
    /\ UNCHANGED <<sessionUserId, tasks, loading, err, tasksChannelRef, calls, server,
                   feed, profiles, uid, resynced, readFailed, drawer, filter>>
    /\ notice' = NoNotice

\* the task list together with the end of the page's life
LifecycleNext ==
    \/ Next
    \/ Teardown

LifecycleSpec == Init /\ [][LifecycleNext]_vars

\* the whole page from its construction, task engine and drawer together.  The
\* product of the two is large, so a run takes one action of the task engine and
\* two of the drawer whatever MaxOps and MaxViews are: enough for every handler
\* to be entered, accepted and rejected, which is what the properties of a
\* single step stated for it are about.
PageInit ==
    /\ sessionUserId = NULL
    /\ tasks = <<>>
    /\ loading = TRUE
    /\ err = NULL
    /\ tasksChannelRef = NULL
    /\ taskChannels = {}
    /\ effect = "session"
    /\ calls = EmptyBag
    /\ server \in InitialRows
    /\ feed = 0
    /\ profiles = <<>>
    /\ uid = 3
    /\ ops = 1
    /\ resynced = {}
    /\ readFailed = FALSE
    /\ openCommentsFor = NoId
    /\ comments = <<>>
    /\ commentsLoading = FALSE
    /\ commentsChannelRef = NoId
    /\ commentChannels = {}
    /\ serverComments = <<SeedComment>>
    /\ cfeed = EmptyBag
    /\ views = 2
    /\ filter = "all"
    /\ notice = NoNotice

PageNext ==
    \/ Next
    \/ DrawerNext
    \/ \E c \in InFlight : ProfilesSettle(c, FALSE)

PageSpec == PageInit /\ [][PageNext]_vars

\* ---------------------------------------------------------------- view projection
\* type Filter, the values of the filter buttons
Filters == { "all", "active", "done", "assignedToMe" }

\* mutant of Keep: assignedToMe tests the creator
KeepByCreator(t, f, user) ==
    IF f = "active" THEN ~t.done
    ELSE IF f = "done" THEN t.done
    ELSE IF f = "assignedToMe" THEN t.user_id = user
    ELSE TRUE
\* the callback of tasks.filter in `filtered`
Keep(t, f, user) ==
    IF f = "active" THEN ~t.done
    ELSE IF f = "done" THEN t.done
    ELSE IF f = "assignedToMe" THEN t.assignee_id = user
    ELSE TRUE

\* mutant of Filtered: the result is shown oldest first
FilteredReversed(ts, f, user) ==
    LET r == SelectSeq(ts, LAMBDA t : Keep(t, f, user))
    IN  [k \in 1..Len(r) |-> r[Len(r) + 1 - k]]
\* useMemo(() => tasks.filter(...), [tasks, filter, sessionUserId])
Filtered(ts, f, user) == SelectSeq(ts, LAMBDA t : Keep(t, f, user))

\* the list the page renders
filtered == Filtered(tasks, filter, sessionUserId)

\* a filter button is clicked: setFilter(f)
SetFilter(f) ==
    /\ filter' = f
    /\ UNCHANGED <<sessionUserId, tasks, loading, err, tasksChannelRef, taskChannels,
                   effect, calls, server, feed, profiles, uid, ops, resynced, readFailed,
                   drawer>>
    /\ notice' = NoNotice

\* the caches that are filtered: up to MaxCache rows of the pool, newest first
Caches == { Restrict(Pool, S) : S \in { T \in SUBSET (1..Len(Pool)) :
                                                Cardinality(T) <= MaxCache } }

\* a loaded page of either user, showing any of the caches
FilterInit ==
    /\ sessionUserId \in {ME, PEER}
    /\ tasks \in Caches
    /\ server = tasks
    /\ loading = FALSE
    /\ err = NULL
    /\ tasksChannelRef = TASKS_CHANNEL
    /\ taskChannels = {TASKS_CHANNEL}
    /\ effect = "subscribed"
    /\ calls = EmptyBag
    /\ feed = 0
    /\ profiles = <<ME, PEER>>
    /\ uid = Len(Pool) + 1
    /\ ops = 0
    /\ resynced = {}
    /\ readFailed = FALSE
    /\ openCommentsFor = NoId
    /\ comments = <<>>
    /\ commentsLoading = FALSE
    /\ commentsChannelRef = NoId
    /\ commentChannels = {}
    /\ serverComments = <<SeedComment>>
    /\ cfeed = EmptyBag
    /\ views = 0
    /\ filter = "all"
    /\ notice = NoNotice

FilterNext == \E f \in Filters : SetFilter(f)

FilterSpec == FilterInit /\ [][FilterNext]_vars

\* ================================================================ properties
\* the text consists of white space only
Blank(s) == \A i \in 1..Len(s) : s[i] = SPACE

\* C1: when the remote call of toggleDone or remove fails, the handler leaves the
\* task cache exactly as it was immediately before that call's optimistic
\* mutation: same entries, same field values, same order.
RollbackExact ==
    [][\A c \in InFlight :
          (c.kind \in {"update", "delete"}
             /\ (UpdateSettle(c, FALSE) \/ DeleteSettle(c, FALSE)))
          => tasks' = c.before]_vars

\* a failed toggle has put the loaded cache back
RollbackExactWitness ==
    /\ err = "update failed"
    /\ tasks = <<RowB, RowA>>

\* C2: once the reload that follows a failed insert has been applied, no entry of
\* the task cache carries that insert's temporary identifier, whatever else
\* runs in between or afterwards.
InsertResync == \A id \in resynced : id \notin Ids(tasks)

Selects(b) ==
    BagCardinality([c \in { d \in BagToSet(b) : d.kind = "select" } |-> b[c]])
\* c is a reload started by a change event
FeedReloadCall(c) == c.kind = "select" /\ ~c.initial /\ c.resync = NoId

\* C4: every change event starts one reload, and once a reload started by a
\* change event has been applied, no event waiting and no other reload in
\* flight, the task cache equals the rows the gateway holds, out-of-order
\* responses included.
FeedReloadCurrent ==
    [][\A c \in InFlight :
          (FeedReloadCall(c) /\ c.served /\ ~c.error /\ SelectSettle(c)
             /\ feed' = 0 /\ Selects(calls') = 0)
          => tasks' = server']_vars

\* the step prepends a new, not yet completed record titled t to the task cache
HeadIsNew(t) ==
    /\ Len(tasks') = Len(tasks) + 1
    /\ SubSeq(tasks', 2, Len(tasks')) = tasks
    /\ tasks'[1].title = t /\ ~tasks'[1].done
    /\ tasks'[1].id \notin Ids(tasks)

\* C5 as claimed: addTask has prepended the new record when it first yields.
VisibleAtFirstYield ==
    [][\A f \in Forms :
          (~Blank(f.title) /\ sessionUserId # NULL
             /\ AddTask(f.title, f.file, f.assignee))
          => HeadIsNew(<<"a">>)]_vars

\* C5 as amended: toggleDone and remove have changed the cache when they yield
\* at their remote call (flag flipped, entry removed); addTask has prepended the
\* new record when it yields at its remote insert, which is its first yield only
\* without an attachment: with one it first yields at the upload with the cache
\* unchanged, and prepends when the upload has settled.
OptimisticVisible ==
    [][/\ \A f \in Forms :
            (ops' < ops /\ ~Blank(f.title) /\ sessionUserId # NULL
               /\ AddTask(f.title, f.file, f.assignee))
            => IF f.file THEN tasks' = tasks ELSE HeadIsNew(<<"a">>)
       /\ \A c \in InFlight, ok \in BOOLEAN :
            (c.kind = "upload" /\ UploadSettle(c, ok)) => HeadIsNew(c.t)
       /\ \A i \in 1..Len(tasks) :
            (ops' < ops /\ ToggleDone(i))
            => /\ Len(tasks') = Len(tasks)
               /\ \A j \in 1..Len(tasks) :
                     tasks[j].id = tasks[i].id => tasks'[j].done = ~tasks[i].done
       /\ \A i \in 1..Len(tasks) :
            (ops' < ops /\ Remove(i)) => tasks[i].id \notin Ids(tasks')]_vars

\* after a successful upload the new record heads the loaded cache while its
\* insert is still in flight
OptimisticVisibleWitness ==
    /\ Len(tasks) = 3
    /\ tasks[1].file_url = "url"
    /\ \E d \in InFlight : d.kind = "insert" /\ d.temp = tasks[1].id

\* C6: clearCompleted removes from the task cache exactly the completed tasks and
\* keeps the others in their order; when its batch delete fails the cache is
\* again the whole collection of before the call, in its order.
BulkClear ==
    [][/\ ClearCompleted
            => tasks' = Restrict(tasks, { i \in 1..Len(tasks) : ~tasks[i].done })
       /\ \A c \in InFlight :
            (c.kind = "deleteIn" /\ DeleteInSettle(c, FALSE)) => tasks' = c.before]_vars

\* a failed clear-completed has put the loaded cache back
BulkClearWitness ==
    /\ err = "clear failed"
    /\ tasks = <<RowB, RowA>>

\* C7: at most one comments channel is subscribed at any time.
AtMostOneCommentChannel == Cardinality(commentChannels) <= 1

\* C8: a comments channel is subscribed only for the task whose drawer is open.
ChannelOnlyWhileOpen == \A t \in commentChannels : t = openCommentsFor

\* nothing is in flight or pending for the task cache and every read succeeded
Quiescent ==
    /\ effect = "subscribed"
    /\ calls = EmptyBag
    /\ feed = 0
    /\ ~readFailed

\* C9: once every call has settled and every change event has been delivered
\* and reloaded, all reads having succeeded, the task cache equals the
\* gateway's rows.
EventuallyConsistent == Quiescent => tasks = server

\* C10: submitting a title, or a comment, that is blank changes no cache, starts
\* no call, reaches no table and sets no message.
BlankIsNoOp ==
    [][/\ \A f \in Forms :
            (Blank(f.title) /\ AddTask(f.title, f.file, f.assignee))
            => UNCHANGED <<tasks, comments, calls, err, server, serverComments,
                           loading, commentsLoading>>
       /\ \A d \in Drafts :
            (Blank(d) /\ AddComment(d))
            => UNCHANGED <<tasks, comments, calls, err, server, serverComments,
                           loading, commentsLoading>>]_vars

\* the session is known and the drawer shows a task's loaded comments, so that
\* a blank title and a blank comment both reach the test of the trimmed text
BlankIsNoOpWitness ==
    /\ sessionUserId # NULL /\ openCommentsFor # NoId
    /\ comments # <<>> /\ tasks # <<>> /\ calls = EmptyBag /\ err = NULL
    /\ ENABLED AddTask(<<SPACE>>, TRUE, PEER)
    /\ ENABLED AddComment(<<SPACE>>)

\* C11: when the gateway has rejected a task insert, a toggle update, a delete or
\* a bulk delete and the reconciliation has finished (the reload for the insert,
\* the rollback for the others), the error message is that failure's message.
WriteFailureSurfaced ==
    [][/\ \A c \in InFlight :
            (c.kind = "update" /\ UpdateSettle(c, FALSE)) => err' = "update failed"
       /\ \A c \in InFlight :
            (c.kind = "delete" /\ DeleteSettle(c, FALSE)) => err' = "delete failed"
       /\ \A c \in InFlight :
            (c.kind = "deleteIn" /\ DeleteInSettle(c, FALSE)) => err' = "clear failed"
       /\ \A c \in InFlight :
            (c.kind = "select" /\ c.resync # NoId /\ c.served /\ SelectSettle(c))
            => err' = "insert failed"]_vars

\* C12: when a load or reload of the tasks, or of a task's comments, has failed,
\* its continuation empties the cache it loads and sets the error message.
ReadFailureResets ==
    [][/\ \A c \in InFlight :
            (c.kind = "select" /\ c.served /\ c.error /\ SelectSettle(c))
            => tasks' = <<>> /\ err' = "select failed"
       /\ \A c \in InFlight :
            (c.kind = "cselect" /\ c.served /\ c.error /\ CSelectSettle(c))
            => comments' = <<>> /\ err' = "select failed"]_vars

\* the reload after a failed insert has failed and emptied the task cache, which
\* held the temporary record, while the gateway holds rows; nothing is pending
ReadFailureWitness ==
    /\ resynced # {}
    /\ tasks = <<>> /\ server # <<>>
    /\ err = "select failed"
    /\ calls = EmptyBag

\* C13: a mutation that completes successfully clears the error message and one
\* that fails replaces it by its own message (addTask, toggleDone, remove,
\* clearCompleted, addComment).
ErrorOverwritten ==
    [][/\ \A c \in InFlight :
            /\ (c.kind = "insert" /\ InsertSettle(c, TRUE)) => err' = NULL
            /\ (c.kind = "update" /\ UpdateSettle(c, TRUE)) => err' = NULL
            /\ (c.kind = "delete" /\ DeleteSettle(c, TRUE)) => err' = NULL
            /\ (c.kind = "deleteIn" /\ DeleteInSettle(c, TRUE)) => err' = NULL
            /\ (c.kind = "cinsert" /\ CInsertSettle(c, TRUE)) => err' = NULL
       /\ \A c \in InFlight :
            /\ (c.kind = "insert" /\ InsertSettle(c, FALSE)) => err' = "insert failed"
            /\ (c.kind = "update" /\ UpdateSettle(c, FALSE)) => err' = "update failed"
            /\ (c.kind = "delete" /\ DeleteSettle(c, FALSE)) => err' = "delete failed"
            /\ (c.kind = "deleteIn" /\ DeleteInSettle(c, FALSE)) => err' = "clear failed"
            /\ (c.kind = "cinsert" /\ CInsertSettle(c, FALSE))
               => err' = "comment failed"]_vars

\* C14: under 'active' the projection is exactly the tasks not done, under 'done'
\* exactly those done, under 'assignedToMe' exactly those whose assignee is the
\* current user, under 'all' every task, each in the cache's order.
FilterSemantics ==
    LET Where(P(_)) == Restrict(tasks, { i \in 1..Len(tasks) : P(tasks[i]) })
        Open(t) == ~t.done
        Done(t) == t.done
        Mine(t) == t.assignee_id = sessionUserId
    IN  /\ Filtered(tasks, "active", sessionUserId) = Where(Open)
        /\ Filtered(tasks, "done", sessionUserId) = Where(Done)
        /\ Filtered(tasks, "assignedToMe", sessionUserId) = Where(Mine)
        /\ Filtered(tasks, "all", sessionUserId) = tasks
        /\ filter \in Filters

\* the three tasks of the spec's scenario under 'Assigned To Me' for user U1
FilterSemanticsWitness ==
    /\ sessionUserId = ME
    /\ tasks = <<RowE, RowD, RowC>>
    /\ filter = "assignedToMe"
    /\ filtered = <<RowC>>

\* C15: the filter selection offers an assigned-by-me value, whose projection is
\* exactly the tasks the current user created and assigned to somebody else.
AssignedByMeOffered ==
    /\ "assignedByMe" \in Filters
    /\ Filtered(tasks, "assignedByMe", sessionUserId)
         = Restrict(tasks, { i \in 1..Len(tasks) :
                                /\ tasks[i].user_id = sessionUserId
                                /\ tasks[i].assignee_id # NULL
                                /\ tasks[i].assignee_id # sessionUserId })

\* C16: selecting a filter leaves the task cache as it is, and the projection is
\* the cache restricted to some of its positions, in the cache's own order.
FilterPure ==
    [][\A f \in Filters :
          SetFilter(f)
          => /\ tasks' = tasks
             /\ \E S \in SUBSET (1..Len(tasks')) : filtered' = Restrict(tasks', S)
             /\ \A g \in Filters :
                   \E S \in SUBSET (1..Len(tasks')) :
                      Filtered(tasks', g, sessionUserId') = Restrict(tasks', S)]_vars

\* 'active' shows the first and the last of three tasks, a completed one between
FilterPureWitness ==
    /\ filter = "active"
    /\ Len(tasks) = 3 /\ tasks[2].done
    /\ filtered = <<tasks[1], tasks[3]>>

\* the identifiers of ts, position by position
IdSeq(ts) == [j \in 1..Len(ts) |-> ts[j].id]

\* C17: whenever the task cache changes, no two entries of the new cache have the
\* same identifier and no identifier of an entry has changed: toggleDone keeps every
\* identifier in its place, remove and clearCompleted only take identifiers
\* away, addTask only adds a fresh one in front, a rollback restores them.
IdsUniqueAndStable ==
    [][tasks' # tasks =>
        /\ \A i, j \in 1..Len(tasks') : tasks'[i].id = tasks'[j].id => i = j
        /\ \A i \in 1..Len(tasks) :
             /\ ToggleDone(i) => IdSeq(tasks') = IdSeq(tasks)
             /\ Remove(i) => IdSeq(tasks') = IdSeq(OptimisticRemove(tasks, tasks[i].id))
        /\ ClearCompleted
             => \E S \in SUBSET (1..Len(tasks)) : IdSeq(tasks') = Restrict(IdSeq(tasks), S)
        /\ \A f \in Forms :
             (~f.file /\ AddTask(f.title, f.file, f.assignee))
             => /\ Tail(IdSeq(tasks')) = IdSeq(tasks)
                /\ tasks'[1].id \notin Ids(tasks) \cup Ids(server)
        /\ \A c \in InFlight, ok \in BOOLEAN :
             (c.kind = "upload" /\ UploadSettle(c, ok))
             => /\ Tail(IdSeq(tasks')) = IdSeq(tasks)
                /\ tasks'[1].id \notin Ids(tasks) \cup Ids(server)
        /\ \A c \in InFlight :
             (c.kind \in {"update", "delete", "deleteIn"}
                /\ (UpdateSettle(c, FALSE) \/ DeleteSettle(c, FALSE)
                      \/ DeleteInSettle(c, FALSE)))
             => IdSeq(tasks') = IdSeq(c.prev)]_vars

\* a failed toggle has restored a cache of three entries whose first is a
\* temporary record the gateway does not hold
IdsUniqueWitness ==
    /\ err = "update failed"
    /\ Len(tasks) = 3
    /\ tasks[1].id \notin Ids(server)

CommentsScoped ==
    (openCommentsFor # NoId /\ \A c \in InFlight : c.kind # "cselect")
    => \A i \in 1..Len(comments) : comments[i].task_id = openCommentsFor

\* the remote writes in flight in bag b
Writes(b) ==
    BagCardinality([c \in { d \in BagToSet(b) :
                              d.kind \in {"upload", "insert", "update", "delete",
                                          "deleteIn", "cinsert"} } |-> b[c]])

\* C20: a remote write is issued only by a step of a user action, one per
\* action (the insert of addTask replaces its upload), and a write that the
\* gateway rejects is not issued again: it leaves one write less in flight.
NoRetry ==
    [][/\ Writes(calls') > Writes(calls)
            => ops' = ops - 1 /\ Writes(calls') = Writes(calls) + 1
       /\ \A c \in InFlight :
            (\/ c.kind = "insert" /\ InsertSettle(c, FALSE)
             \/ c.kind = "update" /\ UpdateSettle(c, FALSE)
             \/ c.kind = "delete" /\ DeleteSettle(c, FALSE)
             \/ c.kind = "deleteIn" /\ DeleteInSettle(c, FALSE))
            => Writes(calls') = Writes(calls) - 1
       /\ \A c \in InFlight, ok \in BOOLEAN :
            (c.kind = "upload" /\ UploadSettle(c, ok))
            => Writes(calls') = Writes(calls)]_vars

\* a rejected delete has settled and no call is in flight
NoRetryWitness ==
    /\ err = "delete failed"
    /\ calls = EmptyBag
    /\ ops = 0

\* C21: when the insert of addTask has succeeded, the handler leaves the task
\* cache as it is, temporary record included, and starts no reload.
InsertSuccessFrame ==
    [][\A c \in InFlight :
          (c.kind = "insert" /\ InsertSettle(c, TRUE))
          => /\ tasks' = tasks
             /\ Selects(calls') = Selects(calls)
             /\ calls' = Del(c)
             /\ loading' = loading]_vars

\* the insert has succeeded: the gateway holds the row under its own identifier
\* and the cache still shows the temporary record in front of the loaded rows
InsertSuccessWitness ==
    /\ Len(server) = 3 /\ server[1].user_id = ME
    /\ Len(tasks) = 3 /\ tasks[1].user_id = ME
    /\ tasks[1].id # server[1].id /\ tasks[1].id \notin Ids(server)
    /\ \A c \in InFlight : c.kind # "insert"
    /\ err = NULL

\* the cached tasks whose identifier is outside the set S, in cache order
Others(ts, S) == SelectSeq(ts, LAMBDA x : x.id \notin S)

\* C24: clearCompleted issues one batch delete keyed by exactly the identifiers of
\* the tasks that are done in the cache at the call; with no done task it issues
\* no remote call and leaves the cache as it is.
ClearKeyedByDone ==
    [][ClearCompleted =>
         LET done == { tasks[i].id : i \in { j \in 1..Len(tasks) : tasks[j].done } }
         IN  IF done = {}
             THEN UNCHANGED <<tasks, calls>>
             ELSE \E c \in BagToSet(calls') :
                    /\ c.kind = "deleteIn" /\ c.ids = done
                    /\ calls' = calls (+) SetToBag({c})]_vars

\* a batch delete keyed by the one done task is in flight, the open task is still
\* cached, and a second clearCompleted would find nothing to clear
ClearKeyedWitness ==
    /\ \E c \in InFlight : c.kind = "deleteIn" /\ c.ids = {RowA.id}
    /\ BagCardinality(calls) = 1
    /\ tasks = <<RowB>>
    /\ ENABLED ClearCompleted

\* C25: a failed mutation's restore undoes only that mutation's own optimistic
\* change: every cache entry the mutation did not touch is after the restore as
\* it was just before it, whatever other mutations or reloads did meanwhile.
RollbackOwnOnly ==
    [][\A c \in InFlight :
         /\ (c.kind = "update" /\ UpdateSettle(c, FALSE))
               => Others(tasks', {c.id}) = Others(tasks, {c.id})
         /\ (c.kind = "delete" /\ DeleteSettle(c, FALSE))
               => Others(tasks', {c.id}) = Others(tasks, {c.id})
         /\ (c.kind = "deleteIn" /\ DeleteInSettle(c, FALSE))
               => Others(tasks', c.ids) = Others(tasks, c.ids)]_vars

\* C26: the optimistic step of toggleDone(task) sets the done flag of the entry
\* with the task's identifier to the negation of task.done and changes nothing
\* else: length, order and every other entry and field stay; a cache without
\* that identifier is returned as it is.
ToggleFrame ==
    [][/\ \A i \in 1..Len(tasks) :
            ToggleDone(i)
            => /\ Len(tasks') = Len(tasks)
               /\ \A k \in 1..Len(tasks) :
                    tasks'[k] = IF tasks[k].id = tasks[i].id
                                THEN [tasks[k] EXCEPT !.done = ~tasks[i].done]
                                ELSE tasks[k]
       /\ \A id \in (1..uid) \ Ids(tasks) : \A next \in BOOLEAN :
            OptimisticToggle(tasks, id, next) = tasks]_vars

\* the open task of the loaded cache has been toggled: its update is in flight,
\* the cache shows it done, and the other task is as it was loaded
ToggleFrameWitness ==
    /\ \E c \in InFlight : c.kind = "update" /\ c.id = RowB.id /\ c.next = TRUE
    /\ tasks = <<[RowB EXCEPT !.done = TRUE], RowA>>

\* C27: while the session user identity is null no remote call is in flight (no
\* task or profile load, no insert), no task subscription exists, and addTask and
\* addComment change neither cache and issue no remote call.
NoIdentityNoTraffic ==
    [][/\ sessionUserId' = NULL
            => /\ calls' = EmptyBag
               /\ taskChannels' = {} /\ tasksChannelRef' = NULL
               /\ tasks' = <<>> /\ comments' = <<>>
       /\ \A f \in Forms :
            (sessionUserId = NULL /\ AddTask(f.title, f.file, f.assignee))
            => UNCHANGED <<tasks, comments, calls, server, serverComments>>
       /\ \A d \in Drafts :
            (sessionUserId = NULL /\ AddComment(d))
            => UNCHANGED <<tasks, comments, calls, server, serverComments>>]_vars

\* the session lookup found no user: the page is idle, and a filled task form and
\* a filled comment form can both be submitted
NoIdentityWitness ==
    /\ effect = "nosession" /\ sessionUserId = NULL /\ ~loading
    /\ \E f \in Forms : ~Blank(f.title) /\ ENABLED AddTask(f.title, f.file, f.assignee)
    /\ \E d \in Drafts : ~Blank(d) /\ ENABLED AddComment(d)

\* C28: addComment puts the temporary comment at the head of the comment cache
\* while its insert is in flight; a failed insert starts a reload of the comments
\* of the task the comment was written for, and when that reload settles the
\* cache holds only what the reload returned, so the temporary comment is gone.
CommentResync ==
    [][/\ \A d \in Drafts :
            (AddComment(d) /\ comments' # comments)
            => /\ comments' = <<comments'[1]>> \o comments
               /\ comments'[1].id = uid /\ comments'[1].task_id = openCommentsFor
               /\ \E c \in BagToSet(calls') :
                    c.kind = "cinsert" /\ c.tmp = uid /\ c.task = openCommentsFor
       /\ \A c \in InFlight :
            (c.kind = "cinsert" /\ CInsertSettle(c, FALSE))
            => /\ BagIn(CSelectCall(c.task, FALSE, c.tmp), calls')
               /\ comments' = comments
       /\ \A c \in InFlight :
            (c.kind = "cselect" /\ c.resync # NoId /\ CSelectSettle(c))
            => /\ \A k \in 1..Len(comments') :
                    comments'[k].id # c.resync /\ comments'[k].task_id = c.task
               /\ comments' = IF c.error THEN <<>> ELSE c.data]_vars

\* a comment on task 1 failed to insert and its reload has settled: the cache
\* holds the stored comment only, the temporary one is gone, nothing is in flight
CommentResyncWitness ==
    /\ err = "comment failed" /\ calls = EmptyBag
    /\ openCommentsFor = RowA.id /\ comments = <<SeedComment>>
    /\ uid > 3 /\ serverComments = <<SeedComment>>

\* C29: the loading flag is true whenever at least one loadTasks call is in
\* flight, overlapping reloads included.
LoadingTracksReloads == Selects(calls) > 0 => loading

\* C23: once the cleanup of the tasks effect has run, no task subscription is
\* active and none becomes active, also when the cleanup ran while the initial
\* profile and task load was still in flight.
NoChannelAfterTeardown ==
    effect \in {"cleaned-loading", "cleaned"} => taskChannels = {}

\* C22: every insert, update, delete and batch delete that completes without
\* error hands a message to notify(), and the dispatch changes neither the cache
\* nor the error message nor what the mutation did.
SuccessNotifies ==
    [][\A c \in InFlight :
         LET Dispatched ==
               notice' # NoNotice /\ tasks' = tasks /\ calls' = Del(c)
         IN  /\ (c.kind = "insert" /\ InsertSettle(c, TRUE)) => Dispatched
             /\ (c.kind = "update" /\ UpdateSettle(c, TRUE)) => Dispatched
             /\ (c.kind = "delete" /\ DeleteSettle(c, TRUE)) => Dispatched
             /\ (c.kind = "deleteIn" /\ DeleteInSettle(c, TRUE)) => Dispatched]_vars

====
